---- MODULE Spec2Model ----
(***************************************************************************)
(* Model of azure/cli/core/auth/util.py: the helpers that translate        *)
(* between ADAL resources and MSAL scopes, classify MSAL results, compose  *)
(* the re-login recommendation and encode/decode claims challenges.        *)
(*                                                                         *)
(* A Python str is a sequence of code points (integers), bytes a sequence  *)
(* of integers in 0..255.  Optional values are sequences of length at most *)
(* one: None is <<>> and a present value v is <<v>>.  A dict is a function *)
(* whose domain is its set of keys.  The outcome of a call is a record     *)
(* that says whether the call returned or raised.                          *)
(***************************************************************************)
EXTENDS Integers, Sequences, FiniteSets, TLC

VARIABLES call, args, ret, prev

vars == <<call, args, ret, prev>>

----------------------------------------------------------------------------
(* Python values *)

Printable == <<" ", "!", "DQUOTE", "#", "$", "%", "&", "'", "(", ")", "*", "+", ",", "-", ".", "/", "0", "1", "2", "3", "4", "5", "6", "7", "8", "9", ":", ";", "<", "=", ">", "?", "@", "A", "B", "C", "D", "E", "F", "G", "H", "I", "J", "K", "L", "M", "N", "O", "P", "Q", "R", "S", "T", "U", "V", "W", "X", "Y", "Z", "[", "BACKSLASH", "]", "^", "_", "BACKTICK", "a", "b", "c", "d", "e", "f", "g", "h", "i", "j", "k", "l", "m", "n", "o", "p", "q", "r", "s", "t", "u", "v", "w", "x", "y", "z", "{", "|", "}", "~">>

\* The code point of a printable ASCII character (space is 32); the three
\* characters a string cannot hold directly are entered by name.
Ord(c) == 31 + (CHOOSE i \in 1..Len(Printable) : Printable[i] = c)

\* A str literal, written character by character.
Str(cs) == [i \in 1..Len(cs) |-> Ord(cs[i])]

\* The one-character str "\n".
LF == <<10>>

None == <<>>

Some(v) == <<v>>

Return(v) == [kind |-> "return", value |-> v]

Raise(exc, msg, recommendation) ==
    [kind |-> "raise", exc |-> exc, msg |-> msg, recommendation |-> recommendation]

RaiseLookup(exc, key) == [kind |-> "raise", exc |-> exc, key |-> key]

\* str.endswith
endswith(s, suffix) ==
    /\ Len(s) >= Len(suffix)
    /\ SubSeq(s, Len(s) - Len(suffix) + 1, Len(s)) = suffix

\* sep.join(parts)
RECURSIVE join(_, _)
join(sep, parts) ==
    IF parts = <<>> THEN <<>>
    ELSE IF Len(parts) = 1 THEN parts[1]
    ELSE parts[1] \o sep \o join(sep, Tail(parts))

----------------------------------------------------------------------------
(* resource_to_scopes / scopes_to_resource *)

DefaultSuffix == Str(<<"/", ".", "d", "e", "f", "a", "u", "l", "t">>)

UserImpersonationSuffix ==
    Str(<<"/", "u", "s", "e", "r", "_", "i", "m", "p", "e", "r", "s", "o", "n", "a", "t", "i", "o", "n">>)

\* Mutant: the trailing slash of the resource is trimmed before the suffix.
resource_to_scopes_trimmed(resource) ==
    IF resource # <<>> /\ resource[Len(resource)] = Ord("/")
    THEN << SubSeq(resource, 1, Len(resource) - 1) \o DefaultSuffix >>
    ELSE << resource \o DefaultSuffix >>

resource_to_scopes(resource) == << resource \o DefaultSuffix >>

suffixes == << DefaultSuffix, UserImpersonationSuffix >>

\* for s in suffixes: if scope.endswith(s): return scope[:-len(s)]
RECURSIVE strip_first_suffix(_, _)
strip_first_suffix(scope, sfx) ==
    IF sfx = <<>> THEN scope
    ELSE IF endswith(scope, Head(sfx))
         THEN SubSeq(scope, 1, Len(scope) - Len(Head(sfx)))
         ELSE strip_first_suffix(scope, Tail(sfx))

\* Mutant: the loop goes on after a match, so every suffix is stripped.
scopes_to_resource_all(scopes) ==
    IF scopes = <<>> THEN RaiseLookup("IndexError", 0)
    ELSE Return(strip_first_suffix(strip_first_suffix(scopes[1], suffixes), suffixes))

scopes_to_resource(scopes) ==
    IF scopes = <<>> THEN RaiseLookup("IndexError", 0)
    ELSE Return(strip_first_suffix(scopes[1], suffixes))

----------------------------------------------------------------------------
(* base64 and UTF-8, as the standard library computes them *)

Base64Alphabet == Str(<<"A", "B", "C", "D", "E", "F", "G", "H", "I", "J", "K", "L", "M", "N", "O", "P", "Q", "R", "S", "T", "U", "V", "W", "X", "Y", "Z", "a", "b", "c", "d", "e", "f", "g", "h", "i", "j", "k", "l", "m", "n", "o", "p", "q", "r", "s", "t", "u", "v", "w", "x", "y", "z", "0", "1", "2", "3", "4", "5", "6", "7", "8", "9", "+", "/">>)

PadChar == Ord("=")

Ok(v) == [ok |-> TRUE, v |-> v]

Err(exc) == [ok |-> FALSE, exc |-> exc]

\* The 6-bit value of a base64 character, 64 for a character outside the alphabet.
b64value(ch) ==
    IF \E i \in 1..64 : Base64Alphabet[i] = ch
    THEN (CHOOSE i \in 1..64 : Base64Alphabet[i] = ch) - 1
    ELSE 64

\* bytes.translate of the URL-safe alphabet: '-' -> '+', '_' -> '/'.
urlsafe_to_std(s) ==
    [i \in 1..Len(s) |-> IF s[i] = Ord("-") THEN Ord("+")
                         ELSE IF s[i] = Ord("_") THEN Ord("/") ELSE s[i]]

std_to_urlsafe(s) ==
    [i \in 1..Len(s) |-> IF s[i] = Ord("+") THEN Ord("-")
                         ELSE IF s[i] = Ord("/") THEN Ord("_") ELSE s[i]]

\* binascii.a2b_base64 in its default (non-strict) mode: characters outside
\* the alphabet are skipped, a complete pad sequence ends the input, and a
\* quad left incomplete at the end is an error.
RECURSIVE a2b_base64(_, _, _, _, _, _)
a2b_base64(s, i, quad_pos, leftchar, pads, out) ==
    IF i > Len(s)
    THEN IF quad_pos # 0 THEN Err("binascii.Error") ELSE Ok(out)
    ELSE IF s[i] = PadChar
    THEN IF quad_pos >= 2 /\ quad_pos + pads + 1 >= 4
         THEN Ok(out)
         ELSE a2b_base64(s, i + 1, quad_pos, leftchar,
                         IF quad_pos >= 2 THEN pads + 1 ELSE pads, out)
    ELSE LET v == b64value(s[i]) IN
         IF v >= 64 THEN a2b_base64(s, i + 1, quad_pos, leftchar, pads, out)
         ELSE IF quad_pos = 0 THEN a2b_base64(s, i + 1, 1, v, 0, out)
         ELSE IF quad_pos = 1
              THEN a2b_base64(s, i + 1, 2, v % 16, 0,
                              Append(out, ((leftchar * 4) + (v \div 16)) % 256))
         ELSE IF quad_pos = 2
              THEN a2b_base64(s, i + 1, 3, v % 4, 0,
                              Append(out, ((leftchar * 16) + (v \div 4)) % 256))
         ELSE a2b_base64(s, i + 1, 0, 0, 0,
                         Append(out, ((leftchar * 64) + v) % 256))

\* base64.urlsafe_b64decode of a str: a non-ASCII str is a ValueError.
urlsafe_b64decode(s) ==
    IF \E i \in 1..Len(s) : s[i] >= 128 THEN Err("ValueError")
    ELSE a2b_base64(urlsafe_to_std(s), 1, 0, 0, 0, <<>>)

b64char(v) == Base64Alphabet[v + 1]

\* binascii.b2a_base64 without the newline: three bytes give four characters,
\* a last group of one or two bytes is padded with '='.
RECURSIVE b2a_base64(_)
b2a_base64(b) ==
    IF b = <<>> THEN <<>>
    ELSE IF Len(b) = 1
    THEN << b64char(b[1] \div 4), b64char((b[1] % 4) * 16), PadChar, PadChar >>
    ELSE IF Len(b) = 2
    THEN << b64char(b[1] \div 4), b64char(((b[1] % 4) * 16) + (b[2] \div 16)),
            b64char((b[2] % 16) * 4), PadChar >>
    ELSE << b64char(b[1] \div 4), b64char(((b[1] % 4) * 16) + (b[2] \div 16)),
            b64char(((b[2] % 16) * 4) + (b[3] \div 64)), b64char(b[3] % 64) >>
         \o b2a_base64(SubSeq(b, 4, Len(b)))

urlsafe_b64encode(b) == std_to_urlsafe(b2a_base64(b))

\* The UTF-8 bytes of one code point (str.encode()).
utf8_of(cp) ==
    IF cp < 128 THEN << cp >>
    ELSE IF cp < 2048 THEN << 192 + (cp \div 64), 128 + (cp % 64) >>
    ELSE IF cp < 65536
    THEN << 224 + (cp \div 4096), 128 + ((cp \div 64) % 64), 128 + (cp % 64) >>
    ELSE << 240 + (cp \div 262144), 128 + ((cp \div 4096) % 64),
            128 + ((cp \div 64) % 64), 128 + (cp % 64) >>

RECURSIVE str_encode(_)
str_encode(s) ==
    IF s = <<>> THEN <<>> ELSE utf8_of(Head(s)) \o str_encode(Tail(s))

IsCont(b, i) == i <= Len(b) /\ b[i] >= 128 /\ b[i] <= 191

\* bytes.decode(): strict UTF-8; an ill-formed sequence is a
\* UnicodeDecodeError, which is a ValueError.
RECURSIVE bytes_decode(_, _, _)
bytes_decode(b, i, out) ==
    IF i > Len(b) THEN Ok(out)
    ELSE LET c == b[i] IN
    IF c < 128 THEN bytes_decode(b, i + 1, Append(out, c))
    ELSE IF c >= 194 /\ c <= 223
    THEN IF IsCont(b, i + 1)
         THEN bytes_decode(b, i + 2, Append(out, ((c - 192) * 64) + (b[i + 1] - 128)))
         ELSE Err("UnicodeDecodeError")
    ELSE IF c >= 224 /\ c <= 239
    THEN IF /\ IsCont(b, i + 1) /\ IsCont(b, i + 2)
            /\ (c = 224 => b[i + 1] >= 160)
            /\ (c = 237 => b[i + 1] <= 159)
         THEN bytes_decode(b, i + 3,
                  Append(out, ((c - 224) * 4096) + ((b[i + 1] - 128) * 64) + (b[i + 2] - 128)))
         ELSE Err("UnicodeDecodeError")
    ELSE IF c >= 240 /\ c <= 244
    THEN IF /\ IsCont(b, i + 1) /\ IsCont(b, i + 2) /\ IsCont(b, i + 3)
            /\ (c = 240 => b[i + 1] >= 144)
            /\ (c = 244 => b[i + 1] <= 143)
         THEN bytes_decode(b, i + 4,
                  Append(out, ((c - 240) * 262144) + ((b[i + 1] - 128) * 4096)
                              + ((b[i + 2] - 128) * 64) + (b[i + 3] - 128)))
         ELSE Err("UnicodeDecodeError")
    ELSE Err("UnicodeDecodeError")

----------------------------------------------------------------------------
(* encode_claims / decode_claims *)

\* Mutant: the input is encoded without asking whether it is encoded already.
encode_claims_always(claims) == urlsafe_b64encode(str_encode(claims))

encode_claims(claims) ==
    LET is_base64 == urlsafe_b64decode(claims).ok IN
    IF ~is_base64 THEN urlsafe_b64encode(str_encode(claims)) ELSE claims

\* Mutant: the decoded bytes are read as Latin-1, which never fails.
decode_claims_latin1(claims) ==
    LET raw == urlsafe_b64decode(claims) IN
    IF ~raw.ok THEN claims ELSE raw.v

decode_claims(claims) ==
    LET raw == urlsafe_b64decode(claims) IN
    IF ~raw.ok THEN claims
    ELSE LET text == bytes_decode(raw.v, 1, <<>>) IN
         IF text.ok THEN text.v ELSE claims

----------------------------------------------------------------------------
(* _generate_login_command / _generate_login_message *)

\* Python truth of an optional str or list: None and the empty value are false.
Truthy(opt) == opt # None /\ opt[1] # <<>>

Space == Str(<<" ">>)

AzLogin == Str(<<"a", "z", " ", "l", "o", "g", "i", "n">>)

AzLogout == Str(<<"a", "z", " ", "l", "o", "g", "o", "u", "t">>)

ClaimsOption == Str(<<"-", "-", "c", "l", "a", "i", "m", "s", " ">>)

ScopeOption == Str(<<"-", "-", "s", "c", "o", "p", "e", " ">>)

\* Mutant: scopes are looked at before claims.
_generate_login_command_scopes_first(scopes, claims) ==
    IF Truthy(scopes)
    THEN join(Space, << AzLogin, ScopeOption \o join(Space, scopes[1]) >>)
    ELSE IF Truthy(claims)
    THEN AzLogout \o LF \o join(Space, << AzLogin, ClaimsOption \o encode_claims(claims[1]) >>)
    ELSE join(Space, << AzLogin >>)

_generate_login_command(scopes, claims) ==
    IF Truthy(claims)
    THEN LET login_command == << AzLogin, ClaimsOption \o encode_claims(claims[1]) >>
         IN  AzLogout \o LF \o join(Space, login_command)
    ELSE IF Truthy(scopes)
    THEN LET login_command == << AzLogin, ScopeOption \o join(Space, scopes[1]) >>
         IN  join(Space, login_command)
    ELSE join(Space, << AzLogin >>)

ReauthenticatePrefix == Str(<<"T", "o", " ", "r", "e", "-", "a", "u", "t", "h", "e", "n", "t", "i", "c", "a", "t", "e", ",", " ", "p", "l", "e", "a", "s", "e", " ">>)

RefreshPortal == Str(<<"r", "e", "f", "r", "e", "s", "h", " ", "A", "z", "u", "r", "e", " ", "P", "o", "r", "t", "a", "l", ".">>)

RunColon == Str(<<"r", "u", "n", ":">>)

contact_admin_msg == Str(<<"I", "f", " ", "t", "h", "e", " ", "p", "r", "o", "b", "l", "e", "m", " ", "p", "e", "r", "s", "i", "s", "t", "s", ",", " ", "p", "l", "e", "a", "s", "e", " ", "c", "o", "n", "t", "a", "c", "t", " ", "y", "o", "u", "r", " ", "t", "e", "n", "a", "n", "t", " ", "a", "d", "m", "i", "n", "i", "s", "t", "r", "a", "t", "o", "r", ".">>)

\* Mutant: the managed console is not asked about; the command is always shown.
_generate_login_message_always_run(kwargs, in_cloud_console) ==
    ReauthenticatePrefix \o RunColon \o LF
    \o _generate_login_command(kwargs.scopes, kwargs.claims)
    \o LF \o LF \o contact_admin_msg

\* in_cloud_console is the answer of azure.cli.core.util.in_cloud_console().
_generate_login_message(kwargs, in_cloud_console) ==
    LET login_command == _generate_login_command(kwargs.scopes, kwargs.claims)
        login_msg == ReauthenticatePrefix \o
                     (IF in_cloud_console THEN RefreshPortal
                      ELSE RunColon \o LF \o login_command)
    IN  login_msg \o LF \o LF \o contact_admin_msg

----------------------------------------------------------------------------
(* aad_error_handler / check_result *)

\* dict.get(key): None when the key is absent.
dict_get(d, key) == IF key \in DOMAIN d THEN Some(d[key]) ELSE None

\* Mutant: the context is not forwarded to the login message.
aad_error_handler_no_context(error, kwargs, in_cloud_console) ==
    Raise("AuthenticationError", dict_get(error, "error_description"),
          _generate_login_message([scopes |-> None, claims |-> None], in_cloud_console))

aad_error_handler(error, kwargs, in_cloud_console) ==
    LET msg == dict_get(error, "error_description")
        login_message == _generate_login_message(kwargs, in_cloud_console)
    IN  Raise("AuthenticationError", msg, login_message)

CantFindToken == Str(<<"C", "a", "n", "'", "t", " ", "f", "i", "n", "d", " ", "t", "o", "k", "e", "n", " ", "f", "r", "o", "m", " ", "M", "S", "A", "L", " ", "c", "a", "c", "h", "e", ".">>)

NoTokenRecommendation ==
    Str(<<"T", "o", " ", "r", "e", "-", "a", "u", "t", "h", "e", "n", "t", "i", "c", "a", "t", "e", ",", " ", "p", "l", "e", "a", "s", "e", " ", "r", "u", "n", ":">>) \o LF \o Str(<<"a", "z", " ", "l", "o", "g", "i", "n">>)

\* Mutant: 'preferred_username' is used whenever the key is present.
id_token_identity_present(idt) ==
    IF "preferred_username" \notin DOMAIN idt /\ "upn" \notin DOMAIN idt
    THEN RaiseLookup("KeyError", "upn")
    ELSE IF "tid" \notin DOMAIN idt THEN RaiseLookup("KeyError", "tid")
    ELSE Return(Some([username |-> IF "preferred_username" \in DOMAIN idt
                                   THEN idt["preferred_username"] ELSE idt["upn"],
                      tenantId |-> idt["tid"]]))

\* idt.get("preferred_username") or idt["upn"], then idt['tid']
id_token_identity(idt) ==
    LET preferred == dict_get(idt, "preferred_username") IN
    IF ~Truthy(preferred) /\ "upn" \notin DOMAIN idt THEN RaiseLookup("KeyError", "upn")
    ELSE IF "tid" \notin DOMAIN idt THEN RaiseLookup("KeyError", "tid")
    ELSE Return(Some([username |-> IF Truthy(preferred) THEN preferred[1] ELSE idt["upn"],
                      tenantId |-> idt["tid"]]))

\* Mutant: 'id_token_claims' is looked for before 'error'.
check_result_identity_first(result, kwargs, in_cloud_console) ==
    IF result = None \/ DOMAIN result[1] = {}
    THEN Raise("AuthenticationError", Some(CantFindToken), NoTokenRecommendation)
    ELSE IF "id_token_claims" \in DOMAIN result[1]
    THEN id_token_identity(result[1]["id_token_claims"])
    ELSE IF "error" \in DOMAIN result[1]
    THEN aad_error_handler(result[1], kwargs, in_cloud_console)
    ELSE Return(None)

\* result is None or a dict; 'not result' is true of None and of the empty dict.
check_result(result, kwargs, in_cloud_console) ==
    IF result = None \/ DOMAIN result[1] = {}
    THEN Raise("AuthenticationError", Some(CantFindToken), NoTokenRecommendation)
    ELSE IF "error" \in DOMAIN result[1]
    THEN aad_error_handler(result[1], kwargs, in_cloud_console)
    ELSE IF "id_token_claims" \in DOMAIN result[1]
    THEN id_token_identity(result[1]["id_token_claims"])
    ELSE Return(None)

----------------------------------------------------------------------------
(* _extract_claims / handle_response_401_track1 *)

\* "=" * n
RECURSIVE pad(_)
pad(n) == IF n <= 0 THEN <<>> ELSE << PadChar >> \o pad(n - 1)

\* Mutant: the padding is 4 - len % 4, four '=' for a value of aligned length.
_extract_claims_pad4(parsed_challenges) ==
    IF Len(parsed_challenges) # 1 \/ "claims" \notin DOMAIN parsed_challenges[1].parameters
    THEN None
    ELSE LET encoded_claims == parsed_challenges[1].parameters["claims"]
         IN  Some(encoded_claims \o pad(4 - (Len(encoded_claims) % 4)))

\* parsed_challenges is what _parse_challenges made of the header: a list of
\* challenges, each with a scheme and a dict of parameters.
_extract_claims(parsed_challenges) ==
    IF Len(parsed_challenges) # 1 \/ "claims" \notin DOMAIN parsed_challenges[1].parameters
    THEN None
    ELSE LET encoded_claims == parsed_challenges[1].parameters["claims"]
             padding_needed == (-Len(encoded_claims)) % 4
         IN  Some(encoded_claims \o pad(padding_needed))

ExpiredOrRevoked ==
    Str(<<"T", "h", "e", " ", "a", "c", "c", "e", "s", "s", " ", "t", "o", "k", "e", "n", " ", "h", "a", "s", " ", "e", "x", "p", "i", "r", "e", "d", " ", "o", "r", " ", "b", "e", "e", "n", " ", "r", "e", "v", "o", "k", "e", "d", " ", "b", "y", " ", "C", "o", "n", "t", "i", "n", "u", "o", "u", "s", " ", "A", "c", "c", "e", "s", "s", " ", "E", "v", "a", "l", "u", "a", "t", "i", "o", "n", ".", " ">>)
    \o Str(<<"S", "i", "l", "e", "n", "t", " ", "r", "e", "-", "a", "u", "t", "h", "e", "n", "t", "i", "c", "a", "t", "i", "o", "n", " ", "w", "i", "l", "l", " ", "b", "e", " ", "a", "t", "t", "e", "m", "p", "t", "e", "d", " ", "i", "n", " ", "t", "h", "e", " ", "f", "u", "t", "u", "r", "e", ".">>)

handle_response_401_track1(parsed_challenges, in_cloud_console) ==
    LET claims == _extract_claims(parsed_challenges)
        login_message == _generate_login_message([scopes |-> None, claims |-> claims],
                                                 in_cloud_console)
    IN  ExpiredOrRevoked \o LF \o login_message

----------------------------------------------------------------------------
(* The inputs the operations are called with *)

MaxParts == 2

MaxTail == 1

MaxScopes == 2

MaxClaimLen == 4

MaxChallengeLen == 5

MaxChallenges == 2

\* All sequences of at most n elements of S.
SeqsUpTo(S, n) == UNION { [1..k -> S] : k \in 0..n }

RECURSIVE Flatten(_)
Flatten(ss) == IF ss = <<>> THEN <<>> ELSE Head(ss) \o Flatten(Tail(ss))

\* Resource strings: built from pieces that make a resource end in '/', in
\* one of the two suffixes, or in neither; the empty resource is among them.
ResourceParts == { Str(<<"h">>), Str(<<"/">>), DefaultSuffix, UserImpersonationSuffix }

Resources == { Flatten(ps) : ps \in SeqsUpTo(ResourceParts, MaxParts) }

TailScopes == { Str(<<"h">>) \o DefaultSuffix, UserImpersonationSuffix }

\* Scope lists: the empty list, and a first scope followed by further scopes.
ScopeLists ==
    { <<>> } \cup { << first >> \o rest : first \in Resources,
                                         rest \in SeqsUpTo(TailScopes, MaxTail) }

\* Claims text: base64 characters, '=', a character outside the alphabet and
\* a non-ASCII character (U+00E9).
ClaimChars == { Ord("Y"), Ord("Q"), Ord("_"), Ord("w"), Ord("="), Ord("{"), 233 }

ClaimStrings == SeqsUpTo(ClaimChars, MaxClaimLen)

\* The scopes and claims a login command is composed from.
ScopeNames == { Str(<<"s", "1">>), Str(<<"s", "2">>), AzLogout }

LoginScopes == { None } \cup { Some(l) : l \in SeqsUpTo(ScopeNames, MaxScopes) }

LoginClaims ==
    { None, Some(<<>>), Some(Str(<<"{">>)), Some(Str(<<"Y", "Q", "=", "=">>)),
      Some(Str(<<"Y">>)), Some(<<233>>),
      Some(Str(<<"-", "-", "s", "c", "o", "p", "e", "=">>)) }

Kwargs == [scopes : LoginScopes, claims : LoginClaims]

\* The contexts check_result and aad_error_handler are called with.
Contexts ==
    { [scopes |-> None, claims |-> None],
      [scopes |-> Some(<< Str(<<"s", "1">>), Str(<<"s", "2">>) >>), claims |-> None],
      [scopes |-> None, claims |-> Some(Str(<<"Y">>))],
      [scopes |-> Some(<< Str(<<"s", "1">>) >>), claims |-> Some(Str(<<"Y", "Q", "=", "=">>))] }

\* dicts with keys among keys, the value of key k drawn from vals[k]
Dicts(keys, vals) ==
    UNION { { d \in [ks -> UNION { vals[k] : k \in ks }] : \A k \in ks : d[k] \in vals[k] }
            : ks \in SUBSET keys }

IdTokenClaims ==
    Dicts({"preferred_username", "upn", "tid"},
          [preferred_username |-> { <<>>, Str(<<"p">>) },
           upn |-> { <<>>, Str(<<"u">>) },
           tid |-> { Str(<<"t">>) }])

\* The keys of an MSAL result whose values are strings.
ResultTexts ==
    Dicts({"error", "error_description", "access_token"},
          [error |-> { Str(<<"i", "n", "v", "a", "l", "i", "d", "_", "g", "r", "a", "n", "t">>) },
           error_description |-> { Str(<<"b", "a", "d">>) },
           access_token |-> { Str(<<"t", "o", "k">>) }])

\* MSAL results: None, the empty dict, and dicts with any of the keys.
Results ==
    { None } \cup { Some(d) : d \in ResultTexts }
    \cup { Some(d @@ [id_token_claims |-> idt]) : d \in ResultTexts, idt \in IdTokenClaims }

\* Parsed WWW-Authenticate challenges.
ChallengeClaims == SeqsUpTo({ Ord("e"), Ord("Q") }, MaxChallengeLen)

Bearer == Str(<<"B", "e", "a", "r", "e", "r">>)

Challenges ==
    { [scheme |-> Bearer, parameters |-> d] :
        d \in Dicts({"claims", "error"},
                    [claims |-> ChallengeClaims,
                     error |-> { Str(<<"b", "a", "d">>) }]) }

ExtraChallenges ==
    { [scheme |-> Bearer, parameters |-> [claims |-> Str(<<"e", "Q">>)]],
      [scheme |-> Bearer, parameters |-> <<>>] }

ParsedChallenges ==
    { <<>> } \cup { << c >> \o rest : c \in Challenges,
                                     rest \in SeqsUpTo(ExtraChallenges, MaxChallenges - 1) }

----------------------------------------------------------------------------
(* The calls *)

Init ==
    /\ call = "none"
    /\ args = <<>>
    /\ ret = <<>>
    /\ prev = None

\* Each run makes one call on inputs of its choice (the Call_ actions), and may
\* go on to feed the value returned to a further call (the Chain_ actions).

\* What a chained call remembers of the call whose result it consumes.
Last == Some([call |-> call, args |-> args])

Call_resource_to_scopes ==
    /\ call = "none"
    /\ \E resource \in Resources :
        /\ call' = "resource_to_scopes"
        /\ args' = [resource |-> resource]
        /\ ret' = Return(resource_to_scopes(resource))
        /\ prev' = None

Call_scopes_to_resource ==
    /\ call = "none"
    /\ \E scopes \in ScopeLists :
        /\ call' = "scopes_to_resource"
        /\ args' = [scopes |-> scopes]
        /\ ret' = scopes_to_resource(scopes)
        /\ prev' = None

\* scopes_to_resource applied to what resource_to_scopes just returned
Chain_scopes_to_resource ==
    /\ call = "resource_to_scopes"
    /\ call' = "scopes_to_resource"
    /\ args' = [scopes |-> ret.value]
    /\ ret' = scopes_to_resource(ret.value)
    /\ prev' = Last

Call_check_result ==
    /\ call = "none"
    /\ \E result \in Results, kwargs \in Contexts, in_cloud_console \in BOOLEAN :
        /\ call' = "check_result"
        /\ args' = [result |-> result, kwargs |-> kwargs,
                    in_cloud_console |-> in_cloud_console]
        /\ ret' = check_result(result, kwargs, in_cloud_console)
        /\ prev' = None

Call_aad_error_handler ==
    /\ call = "none"
    /\ \E error \in Results \ { None }, kwargs \in Contexts, in_cloud_console \in BOOLEAN :
        /\ call' = "aad_error_handler"
        /\ args' = [error |-> error[1], kwargs |-> kwargs,
                    in_cloud_console |-> in_cloud_console]
        /\ ret' = aad_error_handler(error[1], kwargs, in_cloud_console)
        /\ prev' = None

Call_generate_login_command ==
    /\ call = "none"
    /\ \E kwargs \in Kwargs :
        /\ call' = "_generate_login_command"
        /\ args' = kwargs
        /\ ret' = Return(_generate_login_command(kwargs.scopes, kwargs.claims))
        /\ prev' = None

Call_generate_login_message ==
    /\ call = "none"
    /\ \E kwargs \in Kwargs, in_cloud_console \in BOOLEAN :
        /\ call' = "_generate_login_message"
        /\ args' = [kwargs |-> kwargs, in_cloud_console |-> in_cloud_console]
        /\ ret' = Return(_generate_login_message(kwargs, in_cloud_console))
        /\ prev' = None

Call_encode_claims ==
    /\ call = "none"
    /\ \E claims \in ClaimStrings :
        /\ call' = "encode_claims"
        /\ args' = [claims |-> claims]
        /\ ret' = Return(encode_claims(claims))
        /\ prev' = None

\* encode_claims applied to what encode_claims just returned
Chain_encode_claims ==
    /\ call = "encode_claims"
    /\ call' = "encode_claims"
    /\ args' = [claims |-> ret.value]
    /\ ret' = Return(encode_claims(ret.value))
    /\ prev' = Last

Call_decode_claims ==
    /\ call = "none"
    /\ \E claims \in ClaimStrings :
        /\ call' = "decode_claims"
        /\ args' = [claims |-> claims]
        /\ ret' = Return(decode_claims(claims))
        /\ prev' = None

\* decode_claims applied to what encode_claims just returned
Chain_decode_claims ==
    /\ call = "encode_claims"
    /\ call' = "decode_claims"
    /\ args' = [claims |-> ret.value]
    /\ ret' = Return(decode_claims(ret.value))
    /\ prev' = Last

Call_extract_claims ==
    /\ call = "none"
    /\ \E parsed_challenges \in ParsedChallenges :
        /\ call' = "_extract_claims"
        /\ args' = [parsed_challenges |-> parsed_challenges]
        /\ ret' = Return(_extract_claims(parsed_challenges))
        /\ prev' = None

Call_handle_response_401_track1 ==
    /\ call = "none"
    /\ \E parsed_challenges \in ParsedChallenges, in_cloud_console \in BOOLEAN :
        /\ call' = "handle_response_401_track1"
        /\ args' = [parsed_challenges |-> parsed_challenges,
                    in_cloud_console |-> in_cloud_console]
        /\ ret' = Return(handle_response_401_track1(parsed_challenges, in_cloud_console))
        /\ prev' = None

Next ==
    \/ Call_resource_to_scopes
    \/ Call_scopes_to_resource
    \/ Chain_scopes_to_resource
    \/ Call_check_result
    \/ Call_aad_error_handler
    \/ Call_generate_login_command
    \/ Call_generate_login_message
    \/ Call_encode_claims
    \/ Chain_encode_claims
    \/ Call_decode_claims
    \/ Chain_decode_claims
    \/ Call_extract_claims
    \/ Call_handle_response_401_track1

Spec == Init /\ [][Next]_vars

----------------------------------------------------------------------------
(* Properties *)

\* needle occurs in s
contains(s, needle) ==
    \E i \in 0..(Len(s) - Len(needle)) : SubSeq(s, i + 1, i + Len(needle)) = needle

\* s begins with prefix
startswith(s, prefix) ==
    Len(s) >= Len(prefix) /\ SubSeq(s, 1, Len(prefix)) = prefix

ScopeFlag == Str(<<"-", "-", "s", "c", "o", "p", "e">>)

IsAuthenticationError(r) == r.kind = "raise" /\ r.exc = "AuthenticationError"

IsLookupError(r) == r.kind = "raise" /\ r.exc \in {"KeyError", "IndexError"}

\* The call is the second of a chain whose first call was the one named.
ChainedAfter(first) == prev # None /\ prev[1].call = first

\* C1: resource_to_scopes returns the one-element list [r + '/.default'] with
\* no trimming, and scopes_to_resource applied to that list gives back r
\* exactly, for every resource r (empty, ending in '/', or ending in one of
\* the suffixes).
C1_RoundTrip ==
    /\ call = "resource_to_scopes" =>
           ret = Return(<< args.resource \o DefaultSuffix >>)
    /\ (call = "scopes_to_resource" /\ ChainedAfter("resource_to_scopes")) =>
           ret = Return(prev[1].args.resource)

\* C1 witness: the round trip of a resource that itself ends in '/.default'.
C1_Witness ==
    /\ call = "scopes_to_resource"
    /\ ChainedAfter("resource_to_scopes")
    /\ endswith(prev[1].args.resource, DefaultSuffix)
    /\ ret = Return(prev[1].args.resource)

\* C2: for a non-empty scope list the result depends on the first element s
\* only: s without '/.default' if it ends with it, otherwise s without
\* '/user_impersonation' if it ends with that, otherwise s unchanged; one
\* suffix at most is removed.
C2_FirstScopeOnly ==
    (call = "scopes_to_resource" /\ args.scopes # <<>>) =>
        LET s == args.scopes[1] IN
        ret = Return(IF endswith(s, DefaultSuffix)
                     THEN SubSeq(s, 1, Len(s) - Len(DefaultSuffix))
                     ELSE IF endswith(s, UserImpersonationSuffix)
                     THEN SubSeq(s, 1, Len(s) - Len(UserImpersonationSuffix))
                     ELSE s)

\* C2 witness: a list of two scopes whose first carries both suffixes; only
\* the last one is removed and the second scope plays no part.
C2_Witness ==
    /\ call = "scopes_to_resource"
    /\ Len(args.scopes) = 2
    /\ args.scopes[1] = UserImpersonationSuffix \o DefaultSuffix
    /\ args.scopes[2] = Str(<<"h">>) \o DefaultSuffix
    /\ ret = Return(UserImpersonationSuffix)

\* The result has exactly the keys username and tenantId, tenantId from 'tid'.
IsIdentityOf(r, idt) ==
    /\ r.kind = "return"
    /\ r.value # None
    /\ DOMAIN r.value[1] = {"username", "tenantId"}
    /\ r.value[1].tenantId = idt["tid"]

\* The first two classes of check_result: no result, then an error.
ErrorClassesFirst(otherwise) ==
    call = "check_result" =>
        LET result == args.result IN
        IF result = None \/ DOMAIN result[1] = {}
        THEN IsAuthenticationError(ret)
        ELSE IF "error" \in DOMAIN result[1]
        THEN /\ IsAuthenticationError(ret)
             /\ ret.msg = (IF "error_description" \in DOMAIN result[1]
                           THEN Some(result[1]["error_description"]) ELSE None)
        ELSE otherwise

\* C3 as stated: a result with 'id_token_claims' (and no 'error') always
\* returns the mapping.
C3_Original ==
    ErrorClassesFirst(
        IF "id_token_claims" \in DOMAIN args.result[1]
        THEN IsIdentityOf(ret, args.result[1]["id_token_claims"])
        ELSE ret = Return(None))

\* C3: check_result classifies in a fixed order: an empty or absent result
\* raises AuthenticationError; otherwise a result with 'error' raises
\* AuthenticationError with the result's 'error_description' as message, even
\* when 'id_token_claims' is present; otherwise a result with
\* 'id_token_claims' returns the mapping {username, tenantId} or, when the
\* claims lack a key it needs, raises a lookup error; otherwise it returns
\* null.
C3_Classification ==
    ErrorClassesFirst(
        IF "id_token_claims" \in DOMAIN args.result[1]
        THEN \/ IsIdentityOf(ret, args.result[1]["id_token_claims"])
             \/ /\ IsLookupError(ret)
                /\ ret.key \notin DOMAIN args.result[1]["id_token_claims"]
        ELSE ret = Return(None))

\* C3 witness: a result with both 'error' and 'id_token_claims' raises with
\* the error description.
C3_Witness ==
    /\ call = "check_result"
    /\ args.result # None
    /\ {"error", "error_description", "id_token_claims"} \subseteq DOMAIN args.result[1]
    /\ IsAuthenticationError(ret)
    /\ ret.msg = Some(Str(<<"b", "a", "d">>))

\* C4 as stated: every AuthenticationError carries the composed login message
\* of the call's context.
C4_Original ==
    (call \in {"check_result", "aad_error_handler"} /\ IsAuthenticationError(ret)) =>
        ret.recommendation = _generate_login_message(args.kwargs, args.in_cloud_console)

NoTokenCase == call = "check_result" /\ (args.result = None \/ DOMAIN args.result[1] = {})

\* C4: the AuthenticationError raised for an identity-provider error carries
\* the login message composed from the call's context (managed-console branch
\* included); the 'no token found' error carries the fixed recommendation
\* "To re-authenticate, please run:\naz login" whatever the context and the
\* console.
C4_Recommendation ==
    (call \in {"check_result", "aad_error_handler"} /\ IsAuthenticationError(ret)) =>
        IF NoTokenCase
        THEN ret.recommendation =
                 ReauthenticatePrefix \o RunColon \o LF \o AzLogin
        ELSE ret.recommendation =
                 _generate_login_message(args.kwargs, args.in_cloud_console)

\* C4 witness: an identity-provider error reported with scopes in the
\* context, outside the managed console: the recommendation names the scopes.
C4_Witness ==
    /\ call = "check_result"
    /\ IsAuthenticationError(ret)
    /\ ~NoTokenCase
    /\ Truthy(args.kwargs.scopes)
    /\ ~Truthy(args.kwargs.claims)
    /\ ~args.in_cloud_console
    /\ contains(ret.recommendation, ScopeFlag)

\* The three outputs of _generate_login_command, chosen by claims, then scopes.
LoginCommandShape ==
    IF Truthy(args.claims)
    THEN ret.value = AzLogout \o LF \o AzLogin \o Space \o ClaimsOption
                     \o encode_claims(args.claims[1])
    ELSE IF Truthy(args.scopes)
    THEN ret.value = AzLogin \o Space \o ScopeOption \o join(Space, args.scopes[1])
    ELSE ret.value = AzLogin

C6_Idempotent ==
    call = "encode_claims" =>
        /\ IF urlsafe_b64decode(args.claims).ok
           THEN ret = Return(args.claims)
           ELSE /\ ret = Return(urlsafe_b64encode(str_encode(args.claims)))
                /\ urlsafe_b64decode(ret.value).ok
        /\ ChainedAfter("encode_claims") => ret = Return(args.claims)

\* C6 witness: a text that had to be encoded, encoded a second time.
C6_Witness ==
    /\ call = "encode_claims"
    /\ ChainedAfter("encode_claims")
    /\ ~urlsafe_b64decode(prev[1].args.claims).ok
    /\ args.claims # prev[1].args.claims
    /\ ret = Return(args.claims)

\* C7: _extract_claims returns null for zero challenges, for more than one,
\* and for a single challenge without 'claims'; otherwise the claims value
\* followed by 0 to 3 '=' up to the next multiple of 4 in length, a value of
\* aligned length unchanged.
C7_ExtractClaims ==
    call = "_extract_claims" =>
        LET pc == args.parsed_challenges IN
        IF Len(pc) # 1 \/ "claims" \notin DOMAIN pc[1].parameters
        THEN ret = Return(None)
        ELSE LET v == pc[1].parameters["claims"] IN
             /\ ret.kind = "return"
             /\ ret.value # None
             /\ LET r == ret.value[1] IN
                /\ Len(r) % 4 = 0
                /\ Len(r) - Len(v) \in 0..3
                /\ SubSeq(r, 1, Len(v)) = v
                /\ \A i \in (Len(v) + 1)..Len(r) : r[i] = PadChar
                /\ (Len(v) % 4 = 0 => r = v)

\* C7 witness: a single challenge whose claims of five characters come back
\* with three '='.
C7_Witness ==
    /\ call = "_extract_claims"
    /\ Len(args.parsed_challenges) = 1
    /\ "claims" \in DOMAIN args.parsed_challenges[1].parameters
    /\ Len(args.parsed_challenges[1].parameters["claims"]) = 5
    /\ ret = Return(Some(args.parsed_challenges[1].parameters["claims"]
                         \o << PadChar, PadChar, PadChar >>))

\* The call classifies a result by its 'id_token_claims'.
IdentityCase ==
    /\ call = "check_result"
    /\ args.result # None
    /\ "error" \notin DOMAIN args.result[1]
    /\ "id_token_claims" \in DOMAIN args.result[1]

\* C8 as stated: 'preferred_username' wins whenever the key is present, and
\* the username lookup fails only when neither key exists.
C8_Original ==
    IdentityCase =>
        LET idt == args.result[1]["id_token_claims"]
            has(k) == k \in DOMAIN idt
        IN  /\ (has("preferred_username") /\ has("tid")) =>
                   (ret.kind = "return" /\ ret.value[1].username = idt["preferred_username"])
            /\ (~has("preferred_username") /\ has("upn") /\ has("tid")) =>
                   (ret.kind = "return" /\ ret.value[1].username = idt["upn"])
            /\ (IsLookupError(ret) /\ ret.key = "upn") =>
                   (~has("preferred_username") /\ ~has("upn"))
            /\ ~has("tid") => IsLookupError(ret)

\* C8: the username is the value of 'preferred_username' when that key is
\* present with a non-empty value, whatever 'upn' is; when it is absent or
\* empty 'upn' is used; a lookup error is raised when 'preferred_username' is
\* absent or empty and 'upn' is absent, and when 'tid' is absent.
C8_Username ==
    IdentityCase =>
        LET idt == args.result[1]["id_token_claims"]
            has(k) == k \in DOMAIN idt
            preferred == has("preferred_username") /\ idt["preferred_username"] # <<>>
        IN  /\ (preferred /\ has("tid")) =>
                   (ret.kind = "return" /\ ret.value[1].username = idt["preferred_username"])
            /\ (~preferred /\ has("upn") /\ has("tid")) =>
                   (ret.kind = "return" /\ ret.value[1].username = idt["upn"])
            /\ (IsLookupError(ret) /\ ret.key = "upn") <=> (~preferred /\ ~has("upn"))
            /\ ~has("tid") => IsLookupError(ret)

\* C8 witness: an empty 'preferred_username' beside a 'upn': the upn is used.
C8_Witness ==
    /\ IdentityCase
    /\ DOMAIN args.result[1]["id_token_claims"] = {"preferred_username", "upn", "tid"}
    /\ args.result[1]["id_token_claims"]["preferred_username"] = <<>>
    /\ ret = Return(Some([username |-> Str(<<"u">>), tenantId |-> Str(<<"t">>)]))

\* C9: in the managed console the message is the fixed refresh text and the
\* administrator line for every context, and holds neither 'az login' nor 'az
\* logout'; elsewhere it is 'run:', on the next line the login command of the
\* context, a blank line and the administrator line.
C9_LoginMessage ==
    call = "_generate_login_message" =>
        IF args.in_cloud_console
        THEN /\ ret.value = ReauthenticatePrefix \o RefreshPortal \o LF \o LF
                            \o contact_admin_msg
             /\ ~contains(ret.value, AzLogin)
             /\ ~contains(ret.value, AzLogout)
        ELSE ret.value = ReauthenticatePrefix \o RunColon \o LF
                         \o _generate_login_command(args.kwargs.scopes, args.kwargs.claims)
                         \o LF \o LF \o contact_admin_msg

\* C9 witness: a message composed in the managed console for a context with
\* claims.
C9_Witness ==
    /\ call = "_generate_login_message"
    /\ args.in_cloud_console
    /\ Truthy(args.kwargs.claims)
    /\ endswith(ret.value, RefreshPortal \o LF \o LF \o contact_admin_msg)

\* C10: decode_claims gives back x from encode_claims(x) for every x that
\* does not base64url-decode without error, and returns its input unchanged
\* when the base64url decoding or the text decoding of it fails.
C10_DecodeInverts ==
    call = "decode_claims" =>
        /\ (ChainedAfter("encode_claims") /\ ~urlsafe_b64decode(prev[1].args.claims).ok) =>
               ret = Return(prev[1].args.claims)
        /\ LET raw == urlsafe_b64decode(args.claims) IN
           (~raw.ok \/ ~bytes_decode(raw.v, 1, <<>>).ok) => ret = Return(args.claims)

\* C10 witness: a non-ASCII text that was encoded, decoded back.
C10_Witness ==
    /\ call = "decode_claims"
    /\ ChainedAfter("encode_claims")
    /\ \E i \in 1..Len(prev[1].args.claims) : prev[1].args.claims[i] >= 128
    /\ args.claims # prev[1].args.claims
    /\ ret = Return(prev[1].args.claims)

====
